---- MODULE Spec2Model ----
(***************************************************************************)
(* Model of the vault engine of go-password-manager:                       *)
(*   internal/application/service.go  (VaultService, the session engine)   *)
(*   internal/crypto/service.go       (key derivation, AES-GCM)            *)
(*   internal/vault/repository.go     (the file store)                     *)
(*                                                                         *)
(* Callers are goroutines that run one engine operation at a time.  Every  *)
(* access to shared state (the RWMutex s.mu, the sessions map, a session's *)
(* record slice, a vault file) is a step of its own, so the interleavings  *)
(* of the model are those of the code.                                      *)
(*                                                                         *)
(* Idealisations: crypto/rand and uuid.New never repeat a value (they are  *)
(* counters), Argon2id is injective (the key is the pair <<password,       *)
(* salt>>), and AES-GCM opens a ciphertext exactly under the key and nonce *)
(* that sealed it.                                                          *)
(***************************************************************************)
EXTENDS Integers, Sequences, FiniteSets, TLC

\* ------------------------------------------------------------------ bounds
MaxOps     == 3   \* calls started in a behaviour of Spec
MaxOpenOps == 2   \* calls started in a behaviour of SpecUnlocked
MaxSeqOps  == 6   \* calls started in a behaviour of SpecSeq
MaxTwoOps  == 2   \* calls started in a behaviour of SpecTwo
MaxClockOps == 3  \* calls started in a behaviour of SpecClock
MaxClock   == 2   \* ticks of the wall clock in a behaviour of SpecClock
MaxDirOps  == 2   \* calls started in a behaviour of SpecDir
MaxPlainLen == 2  \* bytes of a plaintext in a behaviour of SpecCrypto
MaxDrawn   == 1   \* random values drawn before a behaviour of SpecCrypto
MaxFaultOps == 3  \* calls started in a behaviour of SpecFault
MaxCreateOps == 4 \* calls started in a behaviour of SpecCreate
MaxRateOps == 6   \* Allow calls in a behaviour of SpecRate
MaxRateClock == 3 \* ticks of the clock in a behaviour of SpecRate
RateLimit  == 2   \* RateLimiter.limit in SpecRate
RateWindow == 2   \* RateLimiter.window, in ticks, in SpecRate
MaxBotOps  == 4   \* messages handled in a behaviour of SpecBot
MaxBotClock == 2  \* ticks of the clock in a behaviour of SpecBot
SessionTTL == 1   \* SessionManager.sessionTTL, in ticks, in SpecBot
MaxEphOps  == 3   \* ScheduleDelete calls in a behaviour of SpecEph
MaxEphClock == 2  \* ticks of the clock in a behaviour of SpecEph
EphemeralTTL == 1 \* EphemeralMessageManager.ttl, in ticks, in SpecEph

Procs       == {1, 2}       \* concurrent callers
Vaults      == {"a", "b"}   \* vault names
Passphrases == {"", "pw1", "pw2"}
RecordNames == {"r1", "r2"}
Usernames   == {"", "u2"}   \* "" is an omitted field of updateRecord
Secrets     == {"", "s2"}
AddUsername == "u1"
AddSecret   == "s1"

\* --------------------------------------------------------------- constants
Argon2KeyLen == 32
NonceSize == 12

\* error values of internal/domain and the wrapped errors of the engine
OK                       == "ok"
ErrVaultNotFound         == "vault not found"
ErrVaultAlreadyExists    == "vault already exists"
ErrInvalidMasterPassword == "invalid master password"
ErrRecordNotFound        == "password record not found"
ErrRecordAlreadyExists   == "password record already exists"
ErrDeriveKey             == "failed to derive key"
ErrUnmarshalMetadata     == "failed to unmarshal vault metadata"
ErrReadVaultFile         == "failed to read vault file"
ErrSaveVault             == "failed to save vault"
ErrInvalidKeyLength      == "invalid key length"
ErrInvalidNonceSize      == "invalid nonce size"
ErrDecryptionFailed      == "decryption failed"
Pending                  == "pending"

VARIABLES
    store,      \* vault name -> file of the vault: NoFile, EmptyFile or metadata
    sessions,   \* VaultService.sessions: vault name -> session pointer (0: no key)
    heap,       \* session objects: pointer -> [arr, len, key, ver]; ver counts
                \* the changes made to the records (history)
    arrays,     \* backing arrays of the Records slices: pointer -> elements
    mu,         \* VaultService.mu: [writer, readers]
    pc,         \* position of every caller
    loc,        \* locals of every caller
    rnd,        \* values handed out by crypto/rand and uuid so far
    clock,      \* the wall clock read by time.Now
    ops,        \* calls started
    firstSalt,  \* history: salt of the first metadata written per vault
    nonces,     \* history: nonces of all metadata written per vault
    atLock,     \* history: the records a lock discarded, until the next change
    dir,        \* entries of the vault directory that are not vault files
    probe,      \* a direct use of the crypto service: arguments and results
    requests,   \* RateLimiter.requests: user -> times of the requests kept
    allowed,    \* history: user -> times at which Allow returned true
    lastCall,   \* the user and the result of the latest Allow
    userSessions, \* SessionManager.sessions: user -> session or NoSession
    handler,    \* position of the bot handler that serves a user
    messages,   \* EphemeralMessageManager.messages: key -> message
    toDelete,   \* messages the cleanup took out and has yet to request
    scheduled,  \* history: (chat, message) pairs passed to ScheduleDelete
    deleted     \* history: (chat, message) pairs a deletion was requested for

hist == <<firstSalt, nonces, atLock>>

\* what the engine only reads
telegram ==
    <<requests, allowed, lastCall, userSessions, handler, messages, toDelete,
      scheduled, deleted>>

env == <<dir, probe, telegram>>

vars ==
    <<store, sessions, heap, arrays, mu, pc, loc, rnd, clock, ops, hist, env>>

\* ------------------------------------------------------------------ domain
\* a vault file: absent, without parsable content (created but not yet
\* written, os.WriteFile truncating before it writes, or damaged), or holding
\* the JSON of a VaultMetadata
NoFile    == [kind |-> "nofile"]
EmptyFile == [kind |-> "empty"]

\* the zero value of domain.PasswordRecord
ZeroRecord ==
    [id |-> 0, name |-> "", username |-> "", password |-> "",
     created |-> 0, updated |-> 0]

PasswordRecord(id, name, username, password, created, updated) ==
    [id |-> id, name |-> name, username |-> username, password |-> password,
     created |-> created, updated |-> updated]

NoKey == [pw |-> "", salt |-> 0]

VaultMetadata(salt, nonce, encrypted) ==
    [kind |-> "meta", version |-> "1.0", salt |-> salt, nonce |-> nonce,
     encrypted |-> encrypted]

\* a slice header of []PasswordRecord
NilSlice == [arr |-> 0, len |-> 0]

Cap(hdr) == IF hdr.arr = 0 THEN 0 ELSE Len(arrays[hdr.arr])

\* the elements a slice header denotes in the current memory
Elems(hdr) == [i \in 1..hdr.len |-> arrays[hdr.arr][i]]

\* sess.vault.Records of a session object
Records(s) == [arr |-> heap[s].arr, len |-> heap[s].len]

\* ------------------------------------------------------------------ crypto
KeyLen(key) == IF key = NoKey THEN 0 ELSE Argon2KeyLen

DeriveKeyFailsOnEmptySalt(password, salt) == salt = 0

DeriveKeyFails(password, salt) == password = "" \/ salt = 0

DeriveKey(password, salt) == [pw |-> password, salt |-> salt]

\* rand.Read fills a fresh nonce or salt: the k-th value drawn in this step
RandomBytesZero(k) == 0

RandomBytes(k) == rnd + k

\* a nonce drawn by rand.Read has the size of the cipher; 0 is the empty nonce
NonceLen(nonce) == IF nonce = 0 THEN 0 ELSE NonceSize

\* gcm.Seal under a nonce: the body, which is the plaintext enciphered under
\* that key and nonce, and the tag that authenticates it under both
Seal(nonce, plaintext, key) ==
    [key |-> key, nonce |-> nonce, pt |-> plaintext,
     tag |-> <<key, nonce, plaintext>>]

EncryptFails(key) == KeyLen(key) # Argon2KeyLen

\* the checks of Decrypt in their order: key length, nonce size, gcm.Open
DecryptError(nonce, ciphertext, key) ==
    IF KeyLen(key) # Argon2KeyLen THEN ErrInvalidKeyLength
    ELSE IF NonceLen(nonce) # NonceSize THEN ErrInvalidNonceSize
    ELSE IF ciphertext.tag # <<key, nonce, ciphertext.pt>>
    THEN ErrDecryptionFailed
    ELSE OK

DecryptFailsOnKeyLengthOnly(nonce, ciphertext, key) ==
    KeyLen(key) # Argon2KeyLen

DecryptFails(nonce, ciphertext, key) ==
    DecryptError(nonce, ciphertext, key) # OK

DecryptTruncates(nonce, ciphertext, key) ==
    SubSeq(ciphertext.pt, 1, Len(ciphertext.pt) - 1)

\* the plaintext gcm.Open returns for a ciphertext it has authenticated
Decrypt(nonce, ciphertext, key) == ciphertext.pt

DecryptOutcomeUnauthenticated(nonce, ciphertext, key) ==
    IF KeyLen(key) # Argon2KeyLen
    THEN [err |-> ErrInvalidKeyLength, pt |-> <<>>]
    ELSE IF NonceLen(nonce) # NonceSize
    THEN [err |-> ErrInvalidNonceSize, pt |-> <<>>]
    ELSE [err |-> OK, pt |-> <<ciphertext.pt>>]

\* the two results of Decrypt: the error and the plaintext, which is nil
\* (no element) on every failure and the one plaintext otherwise
DecryptOutcome(nonce, ciphertext, key) ==
    IF DecryptFails(nonce, ciphertext, key)
    THEN [err |-> DecryptError(nonce, ciphertext, key), pt |-> <<>>]
    ELSE [err |-> OK, pt |-> <<Decrypt(nonce, ciphertext, key)>>]

\* -------------------------------------------------------------------- JSON
MarshalRecordOmitsPassword(r) ==
    <<r.id, r.name, r.username, "", r.created, r.updated>>

MarshalRecord(r) ==
    <<r.id, r.name, r.username, r.password, r.created, r.updated>>

UnmarshalRecord(t) == PasswordRecord(t[1], t[2], t[3], t[4], t[5], t[6])

\* json.Marshal(vault): the name and the len elements of the slice
MarshalVault(name, elems) ==
    [name |-> name, records |-> [i \in 1..Len(elems) |-> MarshalRecord(elems[i])]]

UnmarshalRecords(pt) ==
    [i \in 1..Len(pt.records) |-> UnmarshalRecord(pt.records[i])]

\* capacity after growing a slice of capacity c by one element
GrowCap(c) == IF c = 0 THEN 1 ELSE 2 * c

RECURSIVE CapFor(_, _)
CapFor(n, c) == IF n <= c THEN c ELSE CapFor(n, GrowCap(c))

\* the backing array json.Unmarshal builds for the decoded records
NewArray(elems) ==
    [i \in 1..CapFor(Len(elems), 0) |->
        IF i <= Len(elems) THEN elems[i] ELSE ZeroRecord]

\* ------------------------------------------------------------------- store
MarshalMetadataDropsNonce(m) ==
    [kind |-> "meta", json |-> <<m.version, m.salt, 0, m.encrypted>>]

\* json.Marshal(metadata): the bytes Save writes to the vault file
MarshalMetadata(m) ==
    [kind |-> "meta", json |-> <<m.version, m.salt, m.nonce, m.encrypted>>]

\* json.Unmarshal(data, &metadata) of the bytes of a written vault file
UnmarshalMetadata(file) ==
    [kind |-> "meta", version |-> file.json[1], salt |-> file.json[2],
     nonce |-> file.json[3], encrypted |-> file.json[4]]

\* the metadata Load returns for a written vault file
Load(name) == UnmarshalMetadata(store[name])

\* A file name is the sequence of its parts: "a.vault" is <<"a", ".vault">>.
VaultExtension == <<".vault">>

getVaultPath(name) == <<name>> \o VaultExtension

\* strings.HasSuffix and strings.TrimSuffix
HasSuffix(s, suffix) ==
    /\ Len(s) >= Len(suffix)
    /\ SubSeq(s, Len(s) - Len(suffix) + 1, Len(s)) = suffix

TrimSuffix(s, suffix) ==
    IF HasSuffix(s, suffix) THEN SubSeq(s, 1, Len(s) - Len(suffix)) ELSE s

\* os.ReadDir(r.vaultDir): the vault files of the store and the other entries
ReadDir ==
    {[name |-> getVaultPath(n), isDir |-> FALSE] :
        n \in {v \in Vaults : store[v] # NoFile}} \cup dir

\* an entry of the directory that is not a vault file of the store has the path
Occupied(name) == \E e \in dir : e.name = getVaultPath(name)

\* os.Stat succeeds for whatever is at the path
Exists(name) == store[name] # NoFile \/ Occupied(name)

LoadErrorNotFoundWhenDamaged(name) ==
    IF store[name] = NoFile \/ store[name] = EmptyFile THEN ErrVaultNotFound
    ELSE OK

\* os.ReadFile fails with a not-exist error, or with another error when the
\* path is a directory; json.Unmarshal fails on a file without content
LoadError(name) ==
    IF store[name] = NoFile
    THEN (IF Occupied(name) THEN ErrReadVaultFile ELSE ErrVaultNotFound)
    ELSE IF store[name] = EmptyFile THEN ErrUnmarshalMetadata
    ELSE OK

ListIncludesDirectories ==
    {TrimSuffix(e.name, VaultExtension) :
        e \in {d \in ReadDir : HasSuffix(d.name, VaultExtension)}}

\* the names of the entries that are no directories and end in the extension
List ==
    {TrimSuffix(e.name, VaultExtension) :
        e \in {d \in ReadDir : ~d.isDir /\ HasSuffix(d.name, VaultExtension)}}

\* ----------------------------------------------------------------- callers
\* ver and snap are history: the change count of the session after the caller's
\* own change, and the one at which saveVault began to read the records
NoLocals ==
    [op |-> "none", vault |-> "", rname |-> "", user |-> "", secret |-> "",
     pw |-> "", sess |-> 0, hdr |-> NilSlice, view |-> <<>>, rec |-> ZeroRecord,
     key |-> NoKey, meta |-> NoFile, names |-> {}, res |-> Pending,
     ver |-> 0, snap |-> 0]

NotLocked == [set |-> FALSE, recs |-> <<>>]

\* the crypto service has not been used directly
NoProbe == [stage |-> "none"]

\* the bot after NewBot: no request counted, no session, nothing scheduled
Users == {1, 2}

NoSession == [vault |-> "", last |-> 0, state |-> "none", pending |-> ""]

NoCall == [user |-> 0, ok |-> FALSE]

TelegramInit ==
    /\ requests = [u \in Users |-> <<>>]
    /\ allowed = [u \in Users |-> <<>>]
    /\ lastCall = NoCall
    /\ userSessions = [u \in Users |-> NoSession]
    /\ handler = [u \in Users |-> "idle"]
    /\ messages = <<>>
    /\ toDelete = {}
    /\ scheduled = {}
    /\ deleted = {}

Init ==
    /\ store = [n \in Vaults |-> NoFile]
    /\ sessions = [n \in Vaults |-> 0]
    /\ heap = <<>>
    /\ arrays = <<>>
    /\ mu = [writer |-> 0, readers |-> {}]
    /\ pc = [p \in Procs |-> "idle"]
    /\ loc = [p \in Procs |-> NoLocals]
    /\ rnd = 0
    /\ clock = 0
    /\ ops = 0
    /\ firstSalt = [n \in Vaults |-> 0]
    /\ nonces = [n \in Vaults |-> <<>>]
    /\ atLock = [n \in Vaults |-> NotLocked]
    /\ dir = {}
    /\ probe = NoProbe
    /\ TelegramInit

\* a caller moves to the next statement with new locals
Goto(p, label, locals) ==
    /\ pc' = [pc EXCEPT ![p] = label]
    /\ loc' = [loc EXCEPT ![p] = locals]

\* a caller returns: the operation, its target, its result and what it was
\* handed remain
Return(p, res, locals) ==
    /\ pc' = [pc EXCEPT ![p] = "idle"]
    /\ loc' = [loc EXCEPT ![p] =
                 [NoLocals EXCEPT !.op = loc[p].op, !.vault = loc[p].vault,
                                  !.hdr = locals.hdr, !.view = locals.view,
                                  !.names = locals.names, !.res = res]]

\* sync.RWMutex
CanLock  == mu.writer = 0 /\ mu.readers = {}
CanRLock == mu.writer = 0
MuLock(p)    == mu' = [mu EXCEPT !.writer = p]
MuUnlock(p)  == mu' = [mu EXCEPT !.writer = 0]
MuRLock(p)   == mu' = [mu EXCEPT !.readers = @ \cup {p}]
MuRUnlock(p) == mu' = [mu EXCEPT !.readers = @ \ {p}]

Ops == {"create", "unlock", "lock", "add", "get", "list", "update", "delete",
        "isUnlocked", "listVaults"}

FirstLabel(op) ==
    CASE op = "create"     -> "create_check"
      [] op = "unlock"     -> "unlock_load"
      [] op = "lock"       -> "lock_lock"
      [] op = "add"        -> "add_lock"
      [] op = "get"        -> "get_rlock"
      [] op = "list"       -> "list_rlock"
      [] op = "update"     -> "update_lock"
      [] op = "delete"     -> "delete_lock"
      [] op = "isUnlocked" -> "is_rlock"
      [] op = "listVaults" -> "listvaults"

\* the arguments an operation takes; the others stay at their zero value
Args(op, v, pw, rn, u, s) ==
    [NoLocals EXCEPT
        !.op = op,
        !.vault = IF op = "listVaults" THEN "" ELSE v,
        !.pw = IF op \in {"create", "unlock"} THEN pw ELSE "",
        !.rname = IF op \in {"add", "get", "update", "delete"} THEN rn ELSE "",
        !.user = IF op = "update" THEN u ELSE IF op = "add" THEN AddUsername ELSE "",
        !.secret = IF op = "update" THEN s ELSE IF op = "add" THEN AddSecret ELSE ""]

\* a caller starts an engine operation on one of the vaults vs, with a
\* passphrase of pws or update fields of fs, while fewer than max calls have
\* been started
Start(p, vs, pws, fs, max) ==
    /\ pc[p] = "idle"
    /\ ops < max
    /\ ops' = ops + 1
    /\ \/ \E op \in {"create", "unlock"}, v \in vs, pw \in pws :
             Goto(p, FirstLabel(op), Args(op, v, pw, "", "", ""))
       \/ \E op \in {"lock", "list", "isUnlocked"}, v \in vs :
             Goto(p, FirstLabel(op), Args(op, v, "", "", "", ""))
       \/ \E op \in {"add", "get", "delete"}, v \in vs, rn \in RecordNames :
             Goto(p, FirstLabel(op), Args(op, v, "", rn, "", ""))
       \/ \E v \in vs, rn \in RecordNames, f \in fs :
             Goto(p, FirstLabel("update"), Args("update", v, "", rn, f[1], f[2]))
       \/ Goto(p, FirstLabel("listVaults"), Args("listVaults", "", "", "", "", ""))
    /\ UNCHANGED <<env, store, sessions, heap, arrays, mu, rnd, clock, hist>>

Call(p) == Start(p, Vaults, Passphrases, Usernames \X Secrets, MaxOps)

\* ------------------------------------------------------------ CreateVault
CreateVaultCheckSkipsExists(p) ==
    /\ pc[p] = "create_check"
    /\ LET name  == loc[p].vault
           salt  == RandomBytes(1)
           nonce == RandomBytes(2)
           key   == DeriveKey(loc[p].pw, salt)
           data  == MarshalVault(name, <<>>)
       IN  IF DeriveKeyFails(loc[p].pw, salt)
           THEN Return(p, ErrDeriveKey, NoLocals) /\ rnd' = rnd + 1
           ELSE /\ Goto(p, "save_open",
                        [loc[p] EXCEPT !.meta =
                            VaultMetadata(salt, nonce, Seal(nonce, data, key))])
                /\ rnd' = rnd + 2
    /\ UNCHANGED <<env, store, sessions, heap, arrays, mu, clock, ops, hist>>

\* repo.Exists, GenerateSalt, DeriveKey, json.Marshal of the empty vault,
\* Encrypt, and the metadata that Save is about to write
CreateVaultCheck(p) ==
    /\ pc[p] = "create_check"
    /\ LET name  == loc[p].vault
           salt  == RandomBytes(1)
           nonce == RandomBytes(2)
           key   == DeriveKey(loc[p].pw, salt)
           data  == MarshalVault(name, <<>>)
       IN  IF Exists(name)
           THEN Return(p, ErrVaultAlreadyExists, NoLocals) /\ rnd' = rnd
           ELSE IF DeriveKeyFails(loc[p].pw, salt)
           THEN Return(p, ErrDeriveKey, NoLocals) /\ rnd' = rnd + 1
           ELSE /\ Goto(p, "save_open",
                        [loc[p] EXCEPT !.meta =
                            VaultMetadata(salt, nonce, Seal(nonce, data, key))])
                /\ rnd' = rnd + 2
    /\ UNCHANGED <<env, store, sessions, heap, arrays, mu, clock, ops, hist>>

\* --------------------------------------------------- FileRepository.Save
SaveOpenUnlocks(p) ==
    /\ pc[p] = "save_open"
    /\ store' = [store EXCEPT ![loc[p].vault] = EmptyFile]
    /\ IF loc[p].op = "create"
       THEN /\ heap' = Append(heap, [arr |-> 0, len |-> 0,
                                     key |-> loc[p].meta.encrypted.key,
                                     ver |-> 0])
            /\ sessions' = [sessions EXCEPT ![loc[p].vault] = Len(heap) + 1]
       ELSE UNCHANGED <<sessions, heap>>
    /\ Goto(p, "save_write", loc[p])
    /\ UNCHANGED <<env, arrays, mu, rnd, clock, ops, hist>>

\* os.WriteFile opens the file with O_CREATE|O_TRUNC: it exists and is empty
SaveOpen(p) ==
    /\ pc[p] = "save_open"
    /\ store' = [store EXCEPT ![loc[p].vault] = EmptyFile]
    /\ Goto(p, "save_write", loc[p])
    /\ UNCHANGED <<env, sessions, heap, arrays, mu, rnd, clock, ops, hist>>

SaveWriteSkipped(p) ==
    /\ pc[p] = "save_write"
    /\ Return(p, OK, NoLocals)
    /\ UNCHANGED <<env, store, sessions, heap, arrays, mu, rnd, clock, ops, hist>>

\* os.WriteFile cannot open the file (the directory is gone or read-only, the
\* disk is full): Save returns the error and its caller wraps it
SaveOpenFails(p) ==
    /\ pc[p] = "save_open"
    /\ Return(p, ErrSaveVault, NoLocals)
    /\ UNCHANGED <<env, store, sessions, heap, arrays, mu, rnd, clock, ops, hist>>

\* os.WriteFile writes the marshalled metadata; Save and its caller return nil
SaveWrite(p) ==
    /\ pc[p] = "save_write"
    /\ LET name == loc[p].vault IN
       /\ store' = [store EXCEPT ![name] = MarshalMetadata(loc[p].meta)]
       /\ firstSalt' = [firstSalt EXCEPT ![name] =
                           IF @ = 0 THEN loc[p].meta.salt ELSE @]
       /\ nonces' = [nonces EXCEPT ![name] = Append(@, loc[p].meta.nonce)]
    /\ Return(p, OK, NoLocals)
    /\ UNCHANGED <<env, sessions, heap, arrays, mu, rnd, clock, ops, atLock>>

\* ------------------------------------------------------------ UnlockVault
\* repo.Load, DeriveKey, Decrypt and json.Unmarshal: the decoded vault is local
UnlockLoad(p) ==
    /\ pc[p] = "unlock_load"
    /\ LET name == loc[p].vault
           meta == Load(name)
           key  == DeriveKey(loc[p].pw, meta.salt)
       IN  IF LoadError(name) # OK
           THEN Return(p, LoadError(name), NoLocals)
           ELSE IF DeriveKeyFails(loc[p].pw, meta.salt)
           THEN Return(p, ErrDeriveKey, NoLocals)
           ELSE IF DecryptFails(meta.nonce, meta.encrypted, key)
           THEN Return(p, ErrInvalidMasterPassword, NoLocals)
           ELSE Goto(p, "unlock_lock",
                     [loc[p] EXCEPT
                        !.key = key,
                        !.view = UnmarshalRecords(
                                    Decrypt(meta.nonce, meta.encrypted, key))])
    /\ UNCHANGED <<env, store, sessions, heap, arrays, mu, rnd, clock, ops, hist>>

\* s.mu.Lock()
UnlockLock(p) ==
    /\ pc[p] = "unlock_lock"
    /\ CanLock
    /\ MuLock(p)
    /\ Goto(p, "unlock_store", loc[p])
    /\ UNCHANGED <<env, store, sessions, heap, arrays, rnd, clock, ops, hist>>

\* s.sessions[name] = &session{vault, key}; s.mu.Unlock()
UnlockStore(p) ==
    /\ pc[p] = "unlock_store"
    /\ LET elems == loc[p].view
           arr   == IF Len(elems) = 0 THEN 0 ELSE Len(arrays) + 1
       IN  /\ arrays' = IF Len(elems) = 0 THEN arrays
                        ELSE Append(arrays, NewArray(elems))
           /\ heap' = Append(heap, [arr |-> arr, len |-> Len(elems),
                                    key |-> loc[p].key, ver |-> 0])
           /\ sessions' = [sessions EXCEPT ![loc[p].vault] = Len(heap) + 1]
    /\ MuUnlock(p)
    /\ Return(p, OK, NoLocals)
    /\ UNCHANGED <<env, store, rnd, clock, ops, hist>>

\* -------------------------------------------------------------- LockVault
\* s.mu.Lock()
LockLock(p) ==
    /\ pc[p] = "lock_lock"
    /\ CanLock
    /\ MuLock(p)
    /\ Goto(p, "lock_delete", loc[p])
    /\ UNCHANGED <<env, store, sessions, heap, arrays, rnd, clock, ops, hist>>

LockDeleteKeepsSession(p) ==
    /\ pc[p] = "lock_delete"
    /\ Return(p, IF sessions[loc[p].vault] = 0 THEN ErrVaultNotFound ELSE OK,
              NoLocals)
    /\ MuUnlock(p)
    /\ UNCHANGED <<env, store, sessions, heap, arrays, rnd, clock, ops, hist>>

\* the existence check, delete(s.sessions, name) and the deferred Unlock
LockDelete(p) ==
    /\ pc[p] = "lock_delete"
    /\ IF sessions[loc[p].vault] = 0
       THEN /\ Return(p, ErrVaultNotFound, NoLocals)
            /\ UNCHANGED <<env, sessions, atLock>>
       ELSE /\ sessions' = [sessions EXCEPT ![loc[p].vault] = 0]
            /\ atLock' = [atLock EXCEPT ![loc[p].vault] =
                    [set |-> TRUE,
                     recs |-> Elems(Records(sessions[loc[p].vault]))]]
            /\ Return(p, OK, NoLocals)
    /\ MuUnlock(p)
    /\ UNCHANGED <<env, store, heap, arrays, rnd, clock, ops, firstSalt, nonces>>

\* history: the records of the vault are no longer those a lock discarded
Changed(name) == atLock' = [atLock EXCEPT ![name] = NotLocked]

\* ------------------------------------------------ the session lookup
\* the index of the first record with that name, 0 if there is none
IndexOf(elems, name) ==
    IF \E i \in 1..Len(elems) : elems[i].name = name
    THEN CHOOSE i \in 1..Len(elems) :
            /\ elems[i].name = name
            /\ \A j \in 1..(i - 1) : elems[j].name # name
    ELSE 0

LookupIgnoresName(p, next) ==
    IF sessions[loc[p].vault] = 0
    THEN Return(p, ErrVaultNotFound, NoLocals)
    ELSE Goto(p, next, [loc[p] EXCEPT !.sess = sessions["a"]])

\* sess, exists := s.sessions[vaultName]; Unlock; if !exists return ErrVaultNotFound
Lookup(p, next) ==
    IF sessions[loc[p].vault] = 0
    THEN Return(p, ErrVaultNotFound, NoLocals)
    ELSE Goto(p, next, [loc[p] EXCEPT !.sess = sessions[loc[p].vault]])

\* ------------------------------------------------------ AddPasswordRecord
\* s.mu.Lock()
AddLock(p) ==
    /\ pc[p] = "add_lock"
    /\ CanLock
    /\ MuLock(p)
    /\ Goto(p, "add_lookup", loc[p])
    /\ UNCHANGED <<env, store, sessions, heap, arrays, rnd, clock, ops, hist>>

AddLookupKeepsLockOnError(p) ==
    /\ pc[p] = "add_lookup"
    /\ Lookup(p, "add_range")
    /\ IF sessions[loc[p].vault] = 0 THEN mu' = mu ELSE MuUnlock(p)
    /\ UNCHANGED <<env, store, sessions, heap, arrays, rnd, clock, ops, hist>>

\* sess, exists := s.sessions[vaultName]; s.mu.Unlock() on both paths
AddLookup(p) ==
    /\ pc[p] = "add_lookup"
    /\ Lookup(p, "add_range")
    /\ MuUnlock(p)
    /\ UNCHANGED <<env, store, sessions, heap, arrays, rnd, clock, ops, hist>>

\* range sess.vault.Records evaluates the slice header, s.mu not held
AddRange(p) ==
    /\ pc[p] = "add_range"
    /\ Goto(p, "add_check", [loc[p] EXCEPT !.hdr = Records(loc[p].sess)])
    /\ UNCHANGED <<env, store, sessions, heap, arrays, mu, rnd, clock, ops, hist>>

AddCheckSkipsScan(p) ==
    /\ pc[p] = "add_check"
    /\ Goto(p, "add_stamp",
            [loc[p] EXCEPT
               !.hdr = NilSlice,
               !.rec = PasswordRecord(rnd + 1, loc[p].rname, loc[p].user,
                                      loc[p].secret, clock, 0)])
    /\ rnd' = rnd + 1
    /\ UNCHANGED <<env, store, sessions, heap, arrays, mu, clock, ops, hist>>

\* the loop over the elements, then the fields of the new record up to
\* CreatedAt: uuid.New() and the first time.Now()
AddCheck(p) ==
    /\ pc[p] = "add_check"
    /\ IF IndexOf(Elems(loc[p].hdr), loc[p].rname) # 0
       THEN Return(p, ErrRecordAlreadyExists, NoLocals) /\ rnd' = rnd
       ELSE /\ Goto(p, "add_stamp",
                    [loc[p] EXCEPT
                       !.hdr = NilSlice,
                       !.rec = PasswordRecord(rnd + 1, loc[p].rname, loc[p].user,
                                              loc[p].secret, clock, 0)])
            /\ rnd' = rnd + 1
    /\ UNCHANGED <<env, store, sessions, heap, arrays, mu, clock, ops, hist>>

\* UpdatedAt: time.Now(), the second reading of the clock
AddStamp(p) ==
    /\ pc[p] = "add_stamp"
    /\ Goto(p, "add_lock2", [loc[p] EXCEPT !.rec.updated = clock])
    /\ UNCHANGED <<env, store, sessions, heap, arrays, mu, rnd, clock, ops, hist>>

\* s.mu.Lock() before the append
AddLock2(p) ==
    /\ pc[p] = "add_lock2"
    /\ CanLock
    /\ MuLock(p)
    /\ Goto(p, "add_append", loc[p])
    /\ UNCHANGED <<env, store, sessions, heap, arrays, rnd, clock, ops, hist>>

\* sess.vault.Records = append(sess.vault.Records, record); s.mu.Unlock()
AddAppend(p) ==
    /\ pc[p] = "add_append"
    /\ LET s   == loc[p].sess
           hdr == Records(s)
           n   == hdr.len
       IN  IF n < Cap(hdr)
           THEN /\ arrays' = [arrays EXCEPT ![hdr.arr][n + 1] = loc[p].rec]
                /\ heap' = [heap EXCEPT ![s].len = n + 1, ![s].ver = @ + 1]
           ELSE /\ arrays' = Append(arrays,
                               [i \in 1..GrowCap(Cap(hdr)) |->
                                   IF i <= n THEN arrays[hdr.arr][i]
                                   ELSE IF i = n + 1 THEN loc[p].rec
                                   ELSE ZeroRecord])
                /\ heap' = [heap EXCEPT ![s].arr = Len(arrays) + 1,
                                        ![s].len = n + 1, ![s].ver = @ + 1]
    /\ MuUnlock(p)
    /\ Goto(p, "sv_range", [loc[p] EXCEPT !.rec = ZeroRecord,
                                          !.ver = heap[loc[p].sess].ver + 1])
    /\ Changed(loc[p].vault)
    /\ UNCHANGED <<env, store, sessions, rnd, clock, ops, firstSalt, nonces>>

\* --------------------------------------------------- UpdatePasswordRecord
UpdateLock(p) ==
    /\ pc[p] = "update_lock"
    /\ CanLock
    /\ MuLock(p)
    /\ Goto(p, "update_lookup", loc[p])
    /\ UNCHANGED <<env, store, sessions, heap, arrays, rnd, clock, ops, hist>>

UpdateLookup(p) ==
    /\ pc[p] = "update_lookup"
    /\ Lookup(p, "update_lock2")
    /\ MuUnlock(p)
    /\ UNCHANGED <<env, store, sessions, heap, arrays, rnd, clock, ops, hist>>

UpdateLock2(p) ==
    /\ pc[p] = "update_lock2"
    /\ CanLock
    /\ MuLock(p)
    /\ Goto(p, "update_apply", loc[p])
    /\ UNCHANGED <<env, store, sessions, heap, arrays, rnd, clock, ops, hist>>

UpdateApplyOverwritesAll(p) ==
    /\ pc[p] = "update_apply"
    /\ LET hdr == Records(loc[p].sess)
           i   == IndexOf(Elems(hdr), loc[p].rname)
           old == arrays[hdr.arr][i]
       IN  IF i = 0
           THEN /\ Return(p, ErrRecordNotFound, NoLocals)
                /\ UNCHANGED <<env, arrays, heap, atLock>>
           ELSE /\ arrays' = [arrays EXCEPT ![hdr.arr][i] =
                     [old EXCEPT !.username = loc[p].user,
                                 !.password = loc[p].secret,
                                 !.updated = clock]]
                /\ heap' = [heap EXCEPT ![loc[p].sess].ver = @ + 1]
                /\ Goto(p, "sv_range",
                        [loc[p] EXCEPT !.ver = heap[loc[p].sess].ver + 1])
                /\ Changed(loc[p].vault)
    /\ MuUnlock(p)
    /\ UNCHANGED <<env, store, sessions, rnd, clock, ops, firstSalt, nonces>>

\* the loop that overwrites the fields of the first match in place
UpdateApply(p) ==
    /\ pc[p] = "update_apply"
    /\ LET hdr == Records(loc[p].sess)
           i   == IndexOf(Elems(hdr), loc[p].rname)
           old == arrays[hdr.arr][i]
       IN  IF i = 0
           THEN /\ Return(p, ErrRecordNotFound, NoLocals)
                /\ UNCHANGED <<env, arrays, heap, atLock>>
           ELSE /\ arrays' = [arrays EXCEPT ![hdr.arr][i] =
                     [old EXCEPT
                        !.username = IF loc[p].user # "" THEN loc[p].user ELSE @,
                        !.password = IF loc[p].secret # "" THEN loc[p].secret ELSE @,
                        !.updated = clock]]
                /\ heap' = [heap EXCEPT ![loc[p].sess].ver = @ + 1]
                /\ Goto(p, "sv_range",
                        [loc[p] EXCEPT !.ver = heap[loc[p].sess].ver + 1])
                /\ Changed(loc[p].vault)
    /\ MuUnlock(p)
    /\ UNCHANGED <<env, store, sessions, rnd, clock, ops, firstSalt, nonces>>

\* --------------------------------------------------- DeletePasswordRecord
DeleteLock(p) ==
    /\ pc[p] = "delete_lock"
    /\ CanLock
    /\ MuLock(p)
    /\ Goto(p, "delete_lookup", loc[p])
    /\ UNCHANGED <<env, store, sessions, heap, arrays, rnd, clock, ops, hist>>

DeleteLookup(p) ==
    /\ pc[p] = "delete_lookup"
    /\ Lookup(p, "delete_lock2")
    /\ MuUnlock(p)
    /\ UNCHANGED <<env, store, sessions, heap, arrays, rnd, clock, ops, hist>>

DeleteLock2(p) ==
    /\ pc[p] = "delete_lock2"
    /\ CanLock
    /\ MuLock(p)
    /\ Goto(p, "delete_apply", loc[p])
    /\ UNCHANGED <<env, store, sessions, heap, arrays, rnd, clock, ops, hist>>

DeleteApplyTruncates(p) ==
    /\ pc[p] = "delete_apply"
    /\ LET s   == loc[p].sess
           hdr == Records(s)
           i   == IndexOf(Elems(hdr), loc[p].rname)
       IN  IF i = 0
           THEN /\ Return(p, ErrRecordNotFound, NoLocals)
                /\ UNCHANGED <<env, arrays, heap, atLock>>
           ELSE /\ arrays' = arrays
                /\ heap' = [heap EXCEPT ![s].len = i - 1, ![s].ver = @ + 1]
                /\ Goto(p, "sv_range", [loc[p] EXCEPT !.ver = heap[s].ver + 1])
                /\ Changed(loc[p].vault)
    /\ MuUnlock(p)
    /\ UNCHANGED <<env, store, sessions, rnd, clock, ops, firstSalt, nonces>>

\* append(Records[:i], Records[i+1:]...) moves the tail down inside the
\* backing array; the slot behind the new end keeps its old element
DeleteApply(p) ==
    /\ pc[p] = "delete_apply"
    /\ LET s   == loc[p].sess
           hdr == Records(s)
           i   == IndexOf(Elems(hdr), loc[p].rname)
       IN  IF i = 0
           THEN /\ Return(p, ErrRecordNotFound, NoLocals)
                /\ UNCHANGED <<env, arrays, heap, atLock>>
           ELSE /\ arrays' = [arrays EXCEPT ![hdr.arr] =
                     [j \in 1..Len(@) |->
                        IF j >= i /\ j < hdr.len THEN @[j + 1] ELSE @[j]]]
                /\ heap' = [heap EXCEPT ![s].len = hdr.len - 1, ![s].ver = @ + 1]
                /\ Goto(p, "sv_range", [loc[p] EXCEPT !.ver = heap[s].ver + 1])
                /\ Changed(loc[p].vault)
    /\ MuUnlock(p)
    /\ UNCHANGED <<env, store, sessions, rnd, clock, ops, firstSalt, nonces>>

\* -------------------------------------------------------------- saveVault
\* json.Marshal(sess.vault) reads the slice header, s.mu not held
SaveRange(p) ==
    /\ pc[p] = "sv_range"
    /\ Goto(p, "sv_marshal", [loc[p] EXCEPT !.hdr = Records(loc[p].sess),
                                            !.snap = heap[loc[p].sess].ver])
    /\ UNCHANGED <<env, store, sessions, heap, arrays, mu, rnd, clock, ops, hist>>

\* json.Marshal reads the elements; Encrypt seals them under a fresh nonce
SaveMarshal(p) ==
    /\ pc[p] = "sv_marshal"
    /\ LET key   == heap[loc[p].sess].key
           data  == MarshalVault(loc[p].vault, Elems(loc[p].hdr))
           nonce == RandomBytes(1)
       IN  IF EncryptFails(key)
           THEN Return(p, ErrSaveVault, NoLocals) /\ rnd' = rnd
           ELSE /\ Goto(p, "sv_load",
                        [loc[p] EXCEPT
                           !.hdr = NilSlice,
                           !.meta = VaultMetadata(0, nonce, Seal(nonce, data, key))])
                /\ rnd' = rnd + 1
    /\ UNCHANGED <<env, store, sessions, heap, arrays, mu, clock, ops, hist>>

\* repo.Load for the salt; metadata.Nonce and metadata.Encrypted are replaced
SaveLoad(p) ==
    /\ pc[p] = "sv_load"
    /\ LET name == loc[p].vault IN
       IF LoadError(name) # OK
       THEN Return(p, ErrSaveVault, NoLocals)
       ELSE Goto(p, "save_open",
                 [loc[p] EXCEPT !.meta =
                     [Load(name) EXCEPT !.nonce = loc[p].meta.nonce,
                                         !.encrypted = loc[p].meta.encrypted]])
    /\ UNCHANGED <<env, store, sessions, heap, arrays, mu, rnd, clock, ops, hist>>

\* ------------------------------------------------------ GetPasswordRecord
\* s.mu.RLock()
GetRLock(p) ==
    /\ pc[p] = "get_rlock"
    /\ CanRLock
    /\ MuRLock(p)
    /\ Goto(p, "get_lookup", loc[p])
    /\ UNCHANGED <<env, store, sessions, heap, arrays, rnd, clock, ops, hist>>

GetLookupReportsRecordNotFound(p) ==
    /\ pc[p] = "get_lookup"
    /\ IF sessions[loc[p].vault] = 0
       THEN Return(p, ErrRecordNotFound, NoLocals)
       ELSE Lookup(p, "get_range")
    /\ MuRUnlock(p)
    /\ UNCHANGED <<env, store, sessions, heap, arrays, rnd, clock, ops, hist>>

\* sess, exists := s.sessions[vaultName]; s.mu.RUnlock()
GetLookup(p) ==
    /\ pc[p] = "get_lookup"
    /\ Lookup(p, "get_range")
    /\ MuRUnlock(p)
    /\ UNCHANGED <<env, store, sessions, heap, arrays, rnd, clock, ops, hist>>

\* range sess.vault.Records evaluates the slice header, s.mu not held
GetRange(p) ==
    /\ pc[p] = "get_range"
    /\ Goto(p, "get_scan", [loc[p] EXCEPT !.hdr = Records(loc[p].sess)])
    /\ UNCHANGED <<env, store, sessions, heap, arrays, mu, rnd, clock, ops, hist>>

GetScanReturnsFirst(p) ==
    /\ pc[p] = "get_scan"
    /\ LET elems == Elems(loc[p].hdr)
           i     == IndexOf(elems, loc[p].rname)
       IN  IF i = 0
           THEN Return(p, ErrRecordNotFound, NoLocals)
           ELSE Return(p, OK, [NoLocals EXCEPT !.view = <<elems[1]>>])
    /\ UNCHANGED <<env, store, sessions, heap, arrays, mu, rnd, clock, ops, hist>>

\* the loop over the elements; &record is a copy of the matching element
GetScan(p) ==
    /\ pc[p] = "get_scan"
    /\ LET elems == Elems(loc[p].hdr)
           i     == IndexOf(elems, loc[p].rname)
       IN  IF i = 0
           THEN Return(p, ErrRecordNotFound, NoLocals)
           ELSE Return(p, OK, [NoLocals EXCEPT !.view = <<elems[i]>>])
    /\ UNCHANGED <<env, store, sessions, heap, arrays, mu, rnd, clock, ops, hist>>

\* ---------------------------------------------------- ListPasswordRecords
ListRLock(p) ==
    /\ pc[p] = "list_rlock"
    /\ CanRLock
    /\ MuRLock(p)
    /\ Goto(p, "list_lookup", loc[p])
    /\ UNCHANGED <<env, store, sessions, heap, arrays, rnd, clock, ops, hist>>

ListLookup(p) ==
    /\ pc[p] = "list_lookup"
    /\ Lookup(p, "list_return")
    /\ MuRUnlock(p)
    /\ UNCHANGED <<env, store, sessions, heap, arrays, rnd, clock, ops, hist>>

\* return sess.vault.Records: the caller is handed the slice header itself
ListReturn(p) ==
    /\ pc[p] = "list_return"
    /\ Return(p, OK, [NoLocals EXCEPT !.hdr = Records(loc[p].sess)])
    /\ UNCHANGED <<env, store, sessions, heap, arrays, mu, rnd, clock, ops, hist>>

\* -------------------------------------------------------- IsVaultUnlocked
IsRLock(p) ==
    /\ pc[p] = "is_rlock"
    /\ CanRLock
    /\ MuRLock(p)
    /\ Goto(p, "is_lookup", loc[p])
    /\ UNCHANGED <<env, store, sessions, heap, arrays, rnd, clock, ops, hist>>

IsLookup(p) ==
    /\ pc[p] = "is_lookup"
    /\ Return(p, IF sessions[loc[p].vault] # 0 THEN "true" ELSE "false", NoLocals)
    /\ MuRUnlock(p)
    /\ UNCHANGED <<env, store, sessions, heap, arrays, rnd, clock, ops, hist>>

\* ------------------------------------------------------------- ListVaults
ListVaultsUnlockedOnly(p) ==
    /\ pc[p] = "listvaults"
    /\ Return(p, OK, [NoLocals EXCEPT
                        !.names = {<<n>> : n \in {v \in Vaults : sessions[v] # 0}}])
    /\ UNCHANGED <<env, store, sessions, heap, arrays, mu, rnd, clock, ops, hist>>

\* return s.repo.List(ctx)
ListVaults(p) ==
    /\ pc[p] = "listvaults"
    /\ Return(p, OK, [NoLocals EXCEPT !.names = List])
    /\ UNCHANGED <<env, store, sessions, heap, arrays, mu, rnd, clock, ops, hist>>

\* ------------------------------------------------------------------ clock
\* the wall clock advances; between two readings it may also stand still
Tick ==
    /\ clock < MaxClock
    /\ clock' = clock + 1
    /\ UNCHANGED <<env, store, sessions, heap, arrays, mu, pc, loc, rnd, ops, hist>>

\* ------------------------------------------------------------------- spec
\* a step of an operation in progress
Step(p) ==
    \/ CreateVaultCheck(p) \/ SaveOpen(p) \/ SaveWrite(p)
    \/ UnlockLoad(p) \/ UnlockLock(p) \/ UnlockStore(p)
    \/ LockLock(p) \/ LockDelete(p)
    \/ AddLock(p) \/ AddLookup(p) \/ AddRange(p) \/ AddCheck(p) \/ AddStamp(p)
    \/ AddLock2(p) \/ AddAppend(p)
    \/ UpdateLock(p) \/ UpdateLookup(p) \/ UpdateLock2(p) \/ UpdateApply(p)
    \/ DeleteLock(p) \/ DeleteLookup(p) \/ DeleteLock2(p) \/ DeleteApply(p)
    \/ SaveRange(p) \/ SaveMarshal(p) \/ SaveLoad(p)
    \/ GetRLock(p) \/ GetLookup(p) \/ GetRange(p) \/ GetScan(p)
    \/ ListRLock(p) \/ ListLookup(p) \/ ListReturn(p)
    \/ IsRLock(p) \/ IsLookup(p)
    \/ ListVaults(p)

Next == \E p \in Procs : Call(p) \/ Step(p)

Spec == Init /\ [][Next]_vars

\* The engine once createVault("a", "pw1"), unlockVault("a", "pw1") and
\* addRecord("a", "r1", "u1", "s1") have returned to caller 1: a state of Spec
\* (UnlockedReached is reachable there), from which the call budget is spent
\* on operations of the open vault.
KeyA == DeriveKey("pw1", 1)

RecordA == PasswordRecord(3, "r1", AddUsername, AddSecret, 0, 0)

UnlockedState ==
    /\ store = [n \in Vaults |->
                  IF n = "a"
                  THEN MarshalMetadata(VaultMetadata(1, 4,
                          Seal(4, MarshalVault("a", <<RecordA>>), KeyA)))
                  ELSE NoFile]
    /\ sessions = [n \in Vaults |-> IF n = "a" THEN 1 ELSE 0]
    /\ heap = <<[arr |-> 1, len |-> 1, key |-> KeyA, ver |-> 1]>>
    /\ arrays = <<<<RecordA>>>>
    /\ mu = [writer |-> 0, readers |-> {}]
    /\ pc = [p \in Procs |-> "idle"]
    /\ loc = [p \in Procs |->
                IF p = 1
                THEN [NoLocals EXCEPT !.op = "add", !.vault = "a", !.res = OK]
                ELSE NoLocals]
    /\ rnd = 4
    /\ clock = 0
    /\ firstSalt = [n \in Vaults |-> IF n = "a" THEN 1 ELSE 0]
    /\ nonces = [n \in Vaults |-> IF n = "a" THEN <<2, 4>> ELSE <<>>]
    /\ atLock = [n \in Vaults |-> NotLocked]
    /\ dir = {}
    /\ probe = NoProbe
    /\ TelegramInit

UnlockedReached == UnlockedState /\ ops = MaxOps

InitUnlocked == UnlockedState /\ ops = 0

CallOpen(p) == Start(p, {"a"}, {"pw1", "pw2"}, {<<"u2", "s2">>}, MaxOpenOps)

NextUnlocked == \E p \in Procs : CallOpen(p) \/ Step(p)

SpecUnlocked == InitUnlocked /\ [][NextUnlocked]_vars

\* The callers of SpecUnlocked under a fair scheduler: a caller that can take
\* a step of its operation from some moment on takes one.
SpecFair ==
    /\ InitUnlocked
    /\ [][NextUnlocked]_vars
    /\ \A p \in Procs : WF_vars(Step(p))

\* One caller alone on the open vault, with a store whose writes may fail.
CallFault(p) == Start(p, {"a"}, {"pw1"}, {<<"u2", "s2">>}, MaxFaultOps)

NextFault == CallFault(1) \/ Step(1) \/ SaveOpenFails(1)

SpecFault == InitUnlocked /\ [][NextFault]_vars

\* Two callers that create, unlock and fill vault "a" from construction,
\* each with a passphrase of its own choice.
CallCreate(p) ==
    /\ pc[p] = "idle"
    /\ ops < MaxCreateOps
    /\ ops' = ops + 1
    /\ \/ \E op \in {"create", "unlock"}, pw \in {"pw1", "pw2"} :
             Goto(p, FirstLabel(op), Args(op, "a", pw, "", "", ""))
       \/ Goto(p, FirstLabel("add"), Args("add", "a", "", "r1", "", ""))
    /\ UNCHANGED <<env, store, sessions, heap, arrays, mu, rnd, clock, hist>>

StepCreate(p) ==
    \/ CreateVaultCheck(p) \/ SaveOpen(p) \/ SaveWrite(p)
    \/ UnlockLoad(p) \/ UnlockLock(p) \/ UnlockStore(p)
    \/ AddLock(p) \/ AddLookup(p) \/ AddRange(p) \/ AddCheck(p) \/ AddStamp(p)
    \/ AddLock2(p) \/ AddAppend(p)
    \/ SaveRange(p) \/ SaveMarshal(p) \/ SaveLoad(p)

NextCreate == \E p \in Procs : CallCreate(p) \/ StepCreate(p)

SpecCreate == Init /\ [][NextCreate]_vars

\* One caller alone, from construction, on vault "a".
CallSeq(p) == Start(p, {"a"}, Passphrases, Usernames \X Secrets, MaxSeqOps)

NextSeq == CallSeq(1) \/ Step(1)

SpecSeq == Init /\ [][NextSeq]_vars

\* One caller alone on the open vault, with a wall clock that runs: between
\* any two steps of the caller the clock may advance or stand still.
CallClock(p) ==
    Start(p, {"a"}, {"pw1"}, Usernames \X Secrets, MaxClockOps)

NextClock == CallClock(1) \/ Step(1) \/ Tick

SpecClock == InitUnlocked /\ [][NextClock]_vars

\* The engine once caller 1 has created, unlocked and filled both vaults:
\* the calls of UnlockedState, then createVault("b", "pw1"),
\* unlockVault("b", "pw1") and addRecord("b", "r1", "u1", "s1").  Two callers
\* then work on either vault.
KeyB == DeriveKey("pw1", 5)

RecordB == PasswordRecord(7, "r1", AddUsername, AddSecret, 0, 0)

TwoVaultState ==
    /\ store = [n \in Vaults |->
                  IF n = "a"
                  THEN MarshalMetadata(VaultMetadata(1, 4,
                          Seal(4, MarshalVault("a", <<RecordA>>), KeyA)))
                  ELSE MarshalMetadata(VaultMetadata(5, 8,
                          Seal(8, MarshalVault("b", <<RecordB>>), KeyB)))]
    /\ sessions = [n \in Vaults |-> IF n = "a" THEN 1 ELSE 2]
    /\ heap = <<[arr |-> 1, len |-> 1, key |-> KeyA, ver |-> 1],
                [arr |-> 2, len |-> 1, key |-> KeyB, ver |-> 1]>>
    /\ arrays = <<<<RecordA>>, <<RecordB>>>>
    /\ mu = [writer |-> 0, readers |-> {}]
    /\ pc = [p \in Procs |-> "idle"]
    /\ loc = [p \in Procs |->
                IF p = 1
                THEN [NoLocals EXCEPT !.op = "add", !.vault = "b", !.res = OK]
                ELSE NoLocals]
    /\ rnd = 8
    /\ clock = 0
    /\ firstSalt = [n \in Vaults |-> IF n = "a" THEN 1 ELSE 5]
    /\ nonces = [n \in Vaults |-> IF n = "a" THEN <<2, 4>> ELSE <<6, 8>>]
    /\ atLock = [n \in Vaults |-> NotLocked]
    /\ dir = {}
    /\ probe = NoProbe
    /\ TelegramInit

InitTwo == TwoVaultState /\ ops = 0

CallTwo(p) == Start(p, Vaults, {"pw1"}, {<<"u2", "s2">>}, MaxTwoOps)

NextTwo == \E p \in Procs : CallTwo(p) \/ Step(p)

SpecTwo == InitTwo /\ [][NextTwo]_vars

\* One caller on a vault directory that also holds entries the engine did
\* not write: files with other names, and directories, some of them named
\* like a vault file.
ForeignNames ==
    {<<"a", ".vault">>, <<"c", ".vault">>, <<"c", ".txt">>,
     <<"c", ".vault", ".txt">>, <<".vault">>}

\* at most one entry per name; at the path of a vault of the engine only a
\* directory, a file there being the vault file of the store, which is
\* absent or damaged when the engine starts
DirStates ==
    {d \in SUBSET [name : ForeignNames, isDir : BOOLEAN] :
        /\ \A e, f \in d : e.name = f.name => e = f
        /\ \A e \in d :
              (\E v \in Vaults : e.name = getVaultPath(v)) => e.isDir}

InitDir ==
    /\ store \in [Vaults -> {NoFile, EmptyFile}]
    /\ sessions = [n \in Vaults |-> 0]
    /\ heap = <<>>
    /\ arrays = <<>>
    /\ mu = [writer |-> 0, readers |-> {}]
    /\ pc = [p \in Procs |-> "idle"]
    /\ loc = [p \in Procs |-> NoLocals]
    /\ rnd = 0
    /\ clock = 0
    /\ ops = 0
    /\ firstSalt = [n \in Vaults |-> 0]
    /\ nonces = [n \in Vaults |-> <<>>]
    /\ atLock = [n \in Vaults |-> NotLocked]
    /\ dir \in DirStates
    /\ \A n \in Vaults : Occupied(n) => store[n] = NoFile
    /\ probe = NoProbe
    /\ TelegramInit

CallDir(p) ==
    /\ pc[p] = "idle"
    /\ ops < MaxDirOps
    /\ ops' = ops + 1
    /\ \/ \E op \in {"create", "unlock"}, v \in Vaults :
             Goto(p, FirstLabel(op), Args(op, v, "pw1", "", "", ""))
       \/ Goto(p, FirstLabel("listVaults"), Args("listVaults", "", "", "", "", ""))
    /\ UNCHANGED <<env, store, sessions, heap, arrays, mu, rnd, clock, hist>>

StepDir(p) ==
    \/ CreateVaultCheck(p) \/ SaveOpen(p) \/ SaveWrite(p)
    \/ UnlockLoad(p) \/ UnlockLock(p) \/ UnlockStore(p)
    \/ ListVaults(p)

NextDir == CallDir(1) \/ StepDir(1)

SpecDir == InitDir /\ [][NextDir]_vars

\* The crypto service used directly: one Encrypt of a plaintext under a key,
\* then one Decrypt of what it returned or of something else.
Bytes == {0, 1}

Plaintexts == UNION {[1..n -> Bytes] : n \in 0..MaxPlainLen}

ProbeKeys ==
    {NoKey, DeriveKey("pw1", 1), DeriveKey("pw2", 1), DeriveKey("pw1", 2)}

\* a ciphertext with its body or its tag modified by someone who has no key:
\* the modified tag is the tag of nothing
Tampered(ct) ==
    {[ct EXCEPT !.pt = q] : q \in Plaintexts \ {ct.pt}}
    \cup {[ct EXCEPT !.tag = <<>>]}

InitCrypto ==
    /\ store = [n \in Vaults |-> NoFile]
    /\ sessions = [n \in Vaults |-> 0]
    /\ heap = <<>>
    /\ arrays = <<>>
    /\ mu = [writer |-> 0, readers |-> {}]
    /\ pc = [p \in Procs |-> "idle"]
    /\ loc = [p \in Procs |-> NoLocals]
    /\ rnd \in 0..MaxDrawn
    /\ clock = 0
    /\ ops = 0
    /\ firstSalt = [n \in Vaults |-> 0]
    /\ nonces = [n \in Vaults |-> <<>>]
    /\ atLock = [n \in Vaults |-> NotLocked]
    /\ dir = {}
    /\ probe \in [stage : {"input"}, pt : Plaintexts, key : ProbeKeys]
    /\ TelegramInit

\* Service.Encrypt(plaintext, key)
ProbeEncrypt ==
    /\ probe.stage = "input"
    /\ IF EncryptFails(probe.key)
       THEN /\ probe' = [stage |-> "failed", pt |-> probe.pt, key |-> probe.key,
                          err |-> ErrInvalidKeyLength]
            /\ rnd' = rnd
       ELSE LET nonce == RandomBytes(1) IN
            /\ probe' = [stage |-> "sealed", pt |-> probe.pt, key |-> probe.key,
                          nonce |-> nonce,
                          ct |-> Seal(nonce, probe.pt, probe.key)]
            /\ rnd' = rnd + 1
    /\ UNCHANGED <<dir, telegram, store, sessions, heap, arrays, mu, pc, loc, clock, ops,
                   hist>>

\* Service.Decrypt(nonce, ciphertext, key) with any key, with the nonce
\* returned, another one or an empty one, and with the ciphertext returned or
\* a modified one
ProbeDecrypt ==
    /\ probe.stage = "sealed"
    /\ \E key \in ProbeKeys, nonce \in {probe.nonce, probe.nonce + 1, 0},
          ct \in {probe.ct} \cup Tampered(probe.ct) :
          probe' = [stage |-> "opened", pt |-> probe.pt, key |-> probe.key,
                    nonce |-> probe.nonce, ct |-> probe.ct,
                    with |-> [key |-> key, nonce |-> nonce, ct |-> ct],
                    out |-> DecryptOutcome(nonce, ct, key)]
    /\ UNCHANGED <<dir, telegram, store, sessions, heap, arrays, mu, pc, loc, rnd, clock,
                   ops, hist>>

NextCrypto == ProbeEncrypt \/ ProbeDecrypt

SpecCrypto == InitCrypto /\ [][NextCrypto]_vars

\* ------------------------------------------------------------ RateLimiter
\* the engine and the other parts of the bot, which the rate limiter leaves
\* alone
engine == <<store, sessions, heap, arrays, mu, pc, loc, rnd, hist, dir, probe>>

\* the request times after the cutoff, in their order
ValidRequests(reqs, cutoff) == SelectSeq(reqs, LAMBDA t : t > cutoff)

AllowOffByOne(u) ==
    LET valid == ValidRequests(requests[u], clock - RateWindow) IN
    /\ ops < MaxRateOps
    /\ ops' = ops + 1
    /\ IF Len(valid) > RateLimit
       THEN /\ requests' = [requests EXCEPT ![u] = valid]
            /\ lastCall' = [user |-> u, ok |-> FALSE]
            /\ allowed' = allowed
       ELSE /\ requests' = [requests EXCEPT ![u] = Append(valid, clock)]
            /\ lastCall' = [user |-> u, ok |-> TRUE]
            /\ allowed' = [allowed EXCEPT ![u] = Append(@, clock)]
    /\ UNCHANGED <<engine, clock, userSessions, handler, messages, toDelete,
                   scheduled, deleted>>

\* Allow(userID), all of it under rl.mu: drop the requests outside the window,
\* refuse at the limit, otherwise count this request; a user without an
\* entry in the map is a user with no requests
Allow(u) ==
    LET valid == ValidRequests(requests[u], clock - RateWindow) IN
    /\ ops < MaxRateOps
    /\ ops' = ops + 1
    /\ IF Len(valid) >= RateLimit
       THEN /\ requests' = [requests EXCEPT ![u] = valid]
            /\ lastCall' = [user |-> u, ok |-> FALSE]
            /\ allowed' = allowed
       ELSE /\ requests' = [requests EXCEPT ![u] = Append(valid, clock)]
            /\ lastCall' = [user |-> u, ok |-> TRUE]
            /\ allowed' = [allowed EXCEPT ![u] = Append(@, clock)]
    /\ UNCHANGED <<engine, clock, userSessions, handler, messages, toDelete,
                   scheduled, deleted>>

\* CleanupOldEntries, all of it under rl.mu: requests older than two windows
\* go, and with them the users that have none left
CleanupOldEntries ==
    /\ requests' = [u \in Users |->
                       ValidRequests(requests[u], clock - 2 * RateWindow)]
    /\ UNCHANGED <<engine, clock, ops, allowed, lastCall, userSessions, handler,
                   messages, toDelete, scheduled, deleted>>

\* time passes for the rate limiter
RateTick ==
    /\ clock < MaxRateClock
    /\ clock' = clock + 1
    /\ UNCHANGED <<engine, ops, telegram>>

NextRate == (\E u \in Users : Allow(u)) \/ CleanupOldEntries \/ RateTick

SpecRate == Init /\ [][NextRate]_vars

\* --------------------------------------------------------- SessionManager
\* SetLoginState: the state and the pending vault of the session, made if
\* there is none, and the time of the last activity
SetLoginState(u, state, pendingVault) ==
    [userSessions EXCEPT ![u] =
        [vault |-> @.vault, last |-> clock, state |-> state,
         pending |-> pendingVault]]

\* CreateSession: a new session on the vault, idle
CreateSession(u, vaultName) ==
    [userSessions EXCEPT ![u] =
        [vault |-> vaultName, last |-> clock, state |-> "idle", pending |-> ""]]

\* session.VaultName != "" && session.LoginState == StateIdle
IsAuthenticated(u) ==
    /\ userSessions[u] # NoSession
    /\ userSessions[u].vault # ""
    /\ userSessions[u].state = "idle"

\* what a step of the bot's session handling leaves alone
botFrame ==
    <<dir, probe, requests, allowed, lastCall, messages, toDelete, scheduled,
      deleted, store, sessions, heap, arrays, mu, rnd, clock, hist>>

\* a message of user u is taken up by a handler goroutine, one at a time for
\* each user
Handle(u) ==
    /\ handler[u] = "idle"
    /\ pc[u] = "idle"
    /\ ops < MaxBotOps
    /\ ops' = ops + 1

\* handleLogin: /login of a user who is not logged in asks for the vault name
HandleLogin(u) ==
    /\ Handle(u)
    /\ userSessions[u].state \in {"none", "idle"}
    /\ userSessions' = IF IsAuthenticated(u) THEN userSessions
                       ELSE SetLoginState(u, "awaitVault", "")
    /\ UNCHANGED <<botFrame, handler, pc, loc>>

\* handleVaultNameInput: the name is looked for in ListVaults
HandleVaultNameInput(u) ==
    /\ Handle(u)
    /\ userSessions[u].state = "awaitVault"
    /\ \E v \in Vaults :
          userSessions' = IF <<v>> \in List
                          THEN SetLoginState(u, "awaitPassword", v)
                          ELSE SetLoginState(u, "idle", "")
    /\ UNCHANGED <<botFrame, handler, pc, loc>>

\* handleMasterPasswordInput calls UnlockVault(pendingVault, text)
HandleMasterPasswordInput(u) ==
    /\ Handle(u)
    /\ userSessions[u].state = "awaitPassword"
    /\ \E pw \in {"pw1", "pw2"} :
          Goto(u, FirstLabel("unlock"),
               Args("unlock", userSessions[u].pending, pw, "", "", ""))
    /\ handler' = [handler EXCEPT ![u] = "login"]
    /\ UNCHANGED <<botFrame, userSessions>>

\* UnlockVault has returned: CreateSession and SetLoginState(StateIdle, "")
\* on success, SetLoginState(StateIdle, "") alone on an error
LoginReturns(u) ==
    /\ handler[u] = "login"
    /\ pc[u] = "idle"
    /\ userSessions' = IF loc[u].res = OK
                       THEN CreateSession(u, loc[u].vault)
                       ELSE SetLoginState(u, "idle", "")
    /\ handler' = [handler EXCEPT ![u] = "idle"]
    /\ UNCHANGED <<botFrame, ops, pc, loc>>

\* handleList: a user who is authenticated has the activity time renewed and
\* ListPasswordRecords called
HandleList(u) ==
    /\ Handle(u)
    /\ userSessions[u].state \in {"none", "idle"}
    /\ IF IsAuthenticated(u)
       THEN /\ userSessions' = [userSessions EXCEPT ![u].last = clock]
            /\ Goto(u, FirstLabel("list"),
                    Args("list", userSessions[u].vault, "", "", "", ""))
            /\ handler' = [handler EXCEPT ![u] = "list"]
       ELSE UNCHANGED <<userSessions, handler, pc, loc>>
    /\ UNCHANGED botFrame

\* ListPasswordRecords has returned and the records were sent
ListReturns(u) ==
    /\ handler[u] = "list"
    /\ pc[u] = "idle"
    /\ handler' = [handler EXCEPT ![u] = "idle"]
    /\ UNCHANGED <<botFrame, ops, userSessions, pc, loc>>

\* handleLogout: LockVault of the session's vault for an authenticated user
HandleLogout(u) ==
    /\ Handle(u)
    /\ userSessions[u].state \in {"none", "idle"}
    /\ IF IsAuthenticated(u)
       THEN /\ Goto(u, FirstLabel("lock"),
                    Args("lock", userSessions[u].vault, "", "", "", ""))
            /\ handler' = [handler EXCEPT ![u] = "logout"]
       ELSE UNCHANGED <<handler, pc, loc>>
    /\ UNCHANGED <<botFrame, userSessions>>

\* LockVault has returned, its result ignored: DeleteSession
LogoutReturns(u) ==
    /\ handler[u] = "logout"
    /\ pc[u] = "idle"
    /\ userSessions' = [userSessions EXCEPT ![u] = NoSession]
    /\ handler' = [handler EXCEPT ![u] = "idle"]
    /\ UNCHANGED <<botFrame, ops, pc, loc>>

\* one round of cleanupExpiredSessions, under sm.mu: the sessions whose last
\* activity is more than sessionTTL ago are deleted
CleanupExpiredSessions ==
    /\ \E u \in Users :
          userSessions[u] # NoSession /\ clock - userSessions[u].last > SessionTTL
    /\ userSessions' =
          [u \in Users |->
              IF /\ userSessions[u] # NoSession
                 /\ clock - userSessions[u].last > SessionTTL
              THEN NoSession ELSE userSessions[u]]
    /\ UNCHANGED <<botFrame, ops, handler, pc, loc>>

\* time passes for the bot
BotTick ==
    /\ clock < MaxBotClock
    /\ clock' = clock + 1
    /\ UNCHANGED <<engine, ops, telegram>>

\* the steps of the engine calls the handlers make
BotStep(u) ==
    \/ UnlockLoad(u) \/ UnlockLock(u) \/ UnlockStore(u)
    \/ ListRLock(u) \/ ListLookup(u) \/ ListReturn(u)
    \/ LockLock(u) \/ LockDelete(u)

BotHandler(u) ==
    \/ HandleLogin(u) \/ HandleVaultNameInput(u) \/ HandleMasterPasswordInput(u)
    \/ LoginReturns(u) \/ HandleList(u) \/ ListReturns(u)
    \/ HandleLogout(u) \/ LogoutReturns(u)

\* The bot in front of an engine on which createVault("a", "pw1") has
\* returned: vault "a" is on disk and locked.
CreatedState ==
    /\ store = [n \in Vaults |->
                  IF n = "a"
                  THEN MarshalMetadata(VaultMetadata(1, 2,
                          Seal(2, MarshalVault("a", <<>>), KeyA)))
                  ELSE NoFile]
    /\ sessions = [n \in Vaults |-> 0]
    /\ heap = <<>>
    /\ arrays = <<>>
    /\ mu = [writer |-> 0, readers |-> {}]
    /\ pc = [p \in Procs |-> "idle"]
    /\ loc = [p \in Procs |->
                IF p = 1
                THEN [NoLocals EXCEPT !.op = "create", !.vault = "a", !.res = OK]
                ELSE NoLocals]
    /\ rnd = 2
    /\ clock = 0
    /\ firstSalt = [n \in Vaults |-> IF n = "a" THEN 1 ELSE 0]
    /\ nonces = [n \in Vaults |-> IF n = "a" THEN <<2>> ELSE <<>>]
    /\ atLock = [n \in Vaults |-> NotLocked]
    /\ dir = {}
    /\ probe = NoProbe
    /\ TelegramInit

CreatedReached == CreatedState /\ ops = 1

InitBot == CreatedState /\ ops = 0

NextBot ==
    \/ \E u \in Users : BotHandler(u) \/ BotStep(u)
    \/ CleanupExpiredSessions
    \/ BotTick

SpecBot == InitBot /\ [][NextBot]_vars

\* ------------------------------------------------- EphemeralMessageManager
\* string(n) of an integer n is the UTF-8 text of the code point n, and of
\* U+FFFD for an n that is no valid code point
MaxRune      == 1114111
SurrogateMin == 55296
SurrogateMax == 57343
RuneError    == 65533

RuneOf(n) ==
    IF n < 0 \/ n > MaxRune \/ (n >= SurrogateMin /\ n <= SurrogateMax)
    THEN RuneError
    ELSE n

\* string(chatID) + ":" + string(messageID)
getKey(chatID, messageID) == <<RuneOf(chatID), ":", RuneOf(messageID)>>

\* a small chat id, two private chats of users with ids of today's size, and
\* a group chat
ChatIDs    == {7, 2000000, 3000000, -100}
MessageIDs == {5, 6}

ephFrame == <<engine, requests, allowed, lastCall, userSessions, handler>>

\* ScheduleDelete, under emm.mu
ScheduleDelete(chatID, messageID) ==
    /\ ops < MaxEphOps
    /\ ops' = ops + 1
    /\ LET key == getKey(chatID, messageID)
           msg == [chat |-> chatID, msg |-> messageID,
                   deleteAt |-> clock + EphemeralTTL]
       IN messages' = [k \in DOMAIN messages \cup {key} |->
                          IF k = key THEN msg ELSE messages[k]]
    /\ scheduled' = scheduled \cup {<<chatID, messageID>>}
    /\ UNCHANGED <<ephFrame, clock, toDelete, deleted>>

\* the part of deleteExpiredMessages under emm.mu, on a tick of cleanupLoop:
\* the entries past their time leave the map for the list toDelete
DeleteExpired ==
    /\ toDelete = {}
    /\ LET expired == {k \in DOMAIN messages : clock > messages[k].deleteAt}
       IN /\ expired # {}
          /\ toDelete' = {<<messages[k].chat, messages[k].msg>> : k \in expired}
          /\ messages' = [k \in DOMAIN messages \ expired |-> messages[k]]
    /\ UNCHANGED <<ephFrame, clock, ops, scheduled, deleted>>

\* the part outside the lock: a deletion request for one message of the list
RequestDelete ==
    /\ \E m \in toDelete :
          /\ toDelete' = toDelete \ {m}
          /\ deleted' = deleted \cup {m}
    /\ UNCHANGED <<ephFrame, clock, ops, messages, scheduled>>

EphTick ==
    /\ clock < MaxEphClock
    /\ clock' = clock + 1
    /\ UNCHANGED <<engine, ops, telegram>>

NextEph ==
    \/ \E c \in ChatIDs, i \in MessageIDs : ScheduleDelete(c, i)
    \/ DeleteExpired
    \/ RequestDelete
    \/ EphTick

SpecEph == Init /\ [][NextEph]_vars

\* ------------------------------------------------------------------ claims
Mutations == {"add", "update", "delete"}

\* the record list of the session of an unlocked vault
SessionRecords(name) == Elems(Records(sessions[name]))

\* the record list an unlock with the session's key would decode from the store
PersistedRecords(name) ==
    UnmarshalRecords(Decrypt(Load(name).nonce, Load(name).encrypted,
                             heap[sessions[name]].key))

Returned(p, op, res) == pc[p] = "idle" /\ loc[p].op = op /\ loc[p].res = res

\* C1: under any interleaving of addRecord calls on one unlocked vault the
\* session's record list never holds two records with the same name
C1_UniqueRecordNames ==
    \A name \in Vaults :
        sessions[name] # 0 =>
            LET recs == SessionRecords(name) IN
            \A i, j \in 1..Len(recs) : i # j => recs[i].name # recs[j].name

\* C2: once concurrent mutations of one unlocked vault, one by each caller and
\* the only calls made, have all returned success, the store decodes to the
\* record list of the session
C2_NoLostMutation ==
    \A name \in Vaults :
        (/\ ops = Cardinality(Procs)
         /\ sessions[name] # 0
         /\ \A p \in Procs : /\ pc[p] = "idle"
                             /\ loc[p].op \in Mutations
                             /\ loc[p].vault = name
                             /\ loc[p].res = OK)
        => /\ store[name].kind = "meta"
           /\ ~DecryptFails(Load(name).nonce, Load(name).encrypted,
                            heap[sessions[name]].key)
           /\ PersistedRecords(name) = SessionRecords(name)

\* a caller makes a step and returns with that step
Returns(p) == pc[p] # "idle" /\ pc'[p] = "idle"

\* C3: a mutation returns success only with the step that completes the Save
\* of its own ciphertext, sealed under the session's key from records read
\* after the caller's own change
C3_SavedBeforeSuccess ==
    [][\A p \in Procs :
          (loc[p].op \in Mutations /\ Returns(p) /\ loc'[p].res = OK)
          => /\ pc[p] = "save_write"
             /\ loc[p].meta.kind = "meta"
             /\ store'[loc[p].vault] = MarshalMetadata(loc[p].meta)
             /\ loc[p].meta.encrypted.key = heap[loc[p].sess].key
             /\ loc[p].ver > 0
             /\ loc[p].snap >= loc[p].ver]_vars

C3_Witness ==
    \E p \in Procs :
        /\ pc[p] = "idle" /\ loc[p].op \in Mutations /\ loc[p].res = OK
        /\ store[loc[p].vault].kind = "meta"
        /\ Len(nonces[loc[p].vault]) >= 3

\* what the step of unlockVault that loads and decrypts leaves unchanged
UnlockFrame == UNCHANGED <<store, sessions, heap, arrays>>

\* C4 as claimed: unlockVault with a passphrase other than the one the stored
\* ciphertext was sealed from fails with InvalidMasterPassword, with no vault
\* file it fails with VaultNotFound, and a failed unlock changes nothing
C4_WrongPassphraseRejected ==
    [][\A p \in Procs :
          (pc[p] = "unlock_load" /\ pc'[p] # "unlock_load")
          => LET file == store[loc[p].vault] IN
             /\ file.kind = "nofile" => loc'[p].res = ErrVaultNotFound
             /\ (file.kind = "meta"
                 /\ loc[p].pw # Load(loc[p].vault).encrypted.key.pw)
                   => loc'[p].res = ErrInvalidMasterPassword
             /\ loc'[p].res # Pending => UnlockFrame]_vars

\* C4 amended: a non-empty passphrase other than the sealing one fails with
\* InvalidMasterPassword, the empty passphrase fails in key derivation, a
\* missing file fails with VaultNotFound and a file not yet written fails to
\* parse; an unlock fails in that step only, and the step changes nothing
C4_FailedUnlockChangesNothing ==
    [][\A p \in Procs :
          /\ (pc[p] = "unlock_load" /\ pc'[p] # "unlock_load")
             => LET file == store[loc[p].vault] IN
                /\ file.kind = "nofile" => loc'[p].res = ErrVaultNotFound
                /\ file.kind = "empty" => loc'[p].res = ErrUnmarshalMetadata
                /\ (file.kind = "meta" /\ loc[p].pw = "")
                      => loc'[p].res = ErrDeriveKey
                /\ (file.kind = "meta" /\ loc[p].pw # ""
                                       /\ loc[p].pw # Load(loc[p].vault).encrypted.key.pw)
                      => loc'[p].res = ErrInvalidMasterPassword
                /\ UnlockFrame
          /\ (loc[p].op = "unlock" /\ Returns(p) /\ loc'[p].res # OK)
             => pc[p] = "unlock_load"]_vars

C4_Witness ==
    \E p \in Procs :
        /\ Returned(p, "unlock", ErrInvalidMasterPassword)
        /\ sessions[loc[p].vault] # 0

\* the caller-visible fields the round trip is about
Fields(recs) ==
    [i \in 1..Len(recs) |-> <<recs[i].name, recs[i].username, recs[i].password>>]

\* C5: for a single caller, an unlock that follows a lock installs a session
\* whose records have the names, usernames and secrets they had at the lock
C5_RoundTrip ==
    \A p \in Procs :
        (Returned(p, "unlock", OK) /\ atLock[loc[p].vault].set)
        => /\ sessions[loc[p].vault] # 0
           /\ Fields(SessionRecords(loc[p].vault))
                 = Fields(atLock[loc[p].vault].recs)

C5_Witness ==
    \E p \in Procs :
        /\ Returned(p, "unlock", OK)
        /\ atLock[loc[p].vault].set
        /\ \E i \in 1..Len(atLock[loc[p].vault].recs) :
              atLock[loc[p].vault].recs[i].username = "u2"

\* C6: the salt of the stored metadata is the salt of the first creation
C6_SaltImmutable ==
    \A name \in Vaults :
        store[name].kind = "meta" => Load(name).salt = firstSalt[name]

\* C7: no two metadata versions written for a vault carry the same nonce
C7_NoncesNeverReused ==
    \A name \in Vaults :
        \A i, j \in 1..Len(nonces[name]) :
            i # j => nonces[name][i] # nonces[name][j]

C7_Witness == \E name \in Vaults : Len(nonces[name]) >= 4

LookupLabels ==
    {"add_lookup", "update_lookup", "delete_lookup", "get_lookup", "list_lookup"}

\* C8: a vault name has a session exactly from a successful unlock to the next
\* successful lock, isUnlocked reports that, and a record operation that looks
\* the name up while it has no session fails with VaultNotFound
C8_LockedUnlocked ==
    [][/\ \A name \in Vaults :
            /\ (sessions[name] = 0 /\ sessions'[name] # 0)
               => \E p \in Procs : /\ pc[p] = "unlock_store"
                                   /\ loc[p].vault = name
                                   /\ Returns(p) /\ loc'[p].res = OK
            /\ (sessions[name] # 0 /\ sessions'[name] = 0)
               => \E p \in Procs : /\ pc[p] = "lock_delete"
                                   /\ loc[p].vault = name
                                   /\ Returns(p) /\ loc'[p].res = OK
       /\ \A p \in Procs :
            /\ (loc[p].op = "unlock" /\ Returns(p) /\ loc'[p].res = OK)
               => sessions'[loc[p].vault] # 0
            /\ (loc[p].op = "lock" /\ Returns(p))
               => IF sessions[loc[p].vault] # 0
                  THEN loc'[p].res = OK /\ sessions'[loc[p].vault] = 0
                  ELSE loc'[p].res = ErrVaultNotFound
            /\ (loc[p].op = "isUnlocked" /\ Returns(p))
               => (loc'[p].res = "true" <=> sessions[loc[p].vault] # 0)
            /\ (pc[p] \in LookupLabels /\ pc'[p] # pc[p]
                                       /\ sessions[loc[p].vault] = 0)
               => (pc'[p] = "idle" /\ loc'[p].res = ErrVaultNotFound)]_vars

C8_Witness ==
    \E p \in Procs :
        /\ pc[p] = "idle"
        /\ loc[p].op \in Mutations \cup {"get", "list"}
        /\ loc[p].res = ErrVaultNotFound
        /\ atLock[loc[p].vault].set
        /\ store[loc[p].vault].kind = "meta"
        /\ sessions[loc[p].vault] = 0

\* the slots of the backing array arr that the write a mutation is about to
\* make under s.mu will store into
WriteSet(q, arr) ==
    LET hdr == Records(loc[q].sess)
        i   == IndexOf(Elems(hdr), loc[q].rname)
    IN  IF pc[q] \notin {"add_append", "update_apply", "delete_apply"} THEN {}
        ELSE IF hdr.arr # arr \/ arr = 0 THEN {}
        ELSE IF pc[q] = "add_append"
             THEN (IF hdr.len < Cap(hdr) THEN {hdr.len + 1} ELSE {})
        ELSE IF pc[q] = "update_apply" THEN (IF i = 0 THEN {} ELSE {i})
        ELSE (IF i = 0 THEN {} ELSE i..(hdr.len - 1))

\* C9: a read of a vault's records and a write of them never overlap: while
\* getRecord is between reading the slice header and reading the elements, no
\* mutation is inside a write that stores into one of those elements
C9_ReadsExcludeWrites ==
    \A p, q \in Procs :
        pc[p] = "get_scan"
        => WriteSet(q, loc[p].hdr.arr) \cap (1..loc[p].hdr.len) = {}

LockLabels ==
    {"unlock_lock", "lock_lock", "add_lock", "add_lock2", "update_lock",
     "update_lock2", "delete_lock", "delete_lock2"}

RLockLabels == {"get_rlock", "list_rlock", "is_rlock"}

\* C10: no caller waits for s.mu while a caller working on another vault
\* holds it exclusively
C10_NoCrossVaultBlocking ==
    \A p, q \in Procs :
        ~ (/\ pc[p] \in LockLabels \cup RLockLabels
           /\ mu.writer = q
           /\ loc[q].vault # loc[p].vault)

\* the records of session object s in the memory <<h, a>>
RecordsIn(h, a, s) == [i \in 1..h[s].len |-> a[h[s].arr][i]]

\* a caller makes a step of the operation it is in
Steps(p) == pc[p] # "idle" /\ pc'[p] # pc[p]

\* C11: a step of an operation on one vault leaves, for every other vault,
\* the presence of its session, the records of its session and its stored
\* metadata unchanged
C11_VaultIsolation ==
    [][\A p \in Procs :
          Steps(p) =>
             \A other \in Vaults \ {loc[p].vault} :
                /\ sessions'[other] = sessions[other]
                /\ store'[other] = store[other]
                /\ sessions[other] # 0
                   => RecordsIn(heap', arrays', sessions[other])
                         = RecordsIn(heap, arrays, sessions[other])]_vars

\* vault "a" was changed and then locked while "b" stays open with its record
C11_Witness ==
    \E p \in Procs :
        /\ Returned(p, "lock", OK) /\ loc[p].vault = "a"
        /\ sessions["a"] = 0
        /\ Len(nonces["a"]) >= 3
        /\ sessions["b"] # 0
        /\ SessionRecords("b") = <<RecordB>>
        /\ Load("b").nonce = 8

\* C12: once an unlockVault of an open vault and a mutation of it, the only
\* calls made, have both returned success, the store decodes to the record
\* list of the installed session
C12_ReunlockKeepsState ==
    \A name \in Vaults :
        (/\ ops = Cardinality(Procs)
         /\ sessions[name] # 0
         /\ \A p \in Procs : pc[p] = "idle" /\ loc[p].vault = name
                                             /\ loc[p].res = OK
         /\ \E p \in Procs : loc[p].op = "unlock"
         /\ \E p \in Procs : loc[p].op \in Mutations)
        => /\ store[name].kind = "meta"
           /\ ~DecryptFails(Load(name).nonce, Load(name).encrypted,
                            heap[sessions[name]].key)
           /\ PersistedRecords(name) = SessionRecords(name)

\* the positions of addRecord up to the scan for the name
AddScanLabels == {"add_lock", "add_lookup", "add_range", "add_check"}

\* C13: for one caller, an addRecord whose name the open vault already holds
\* goes no further than the scan, returns RecordAlreadyExists, and none of
\* its steps changes the sessions, their records or the store
C13_DuplicateAddRejected ==
    [][\A p \in Procs :
          (/\ Steps(p) /\ pc[p] \in AddScanLabels
           /\ sessions[loc[p].vault] # 0
           /\ IndexOf(SessionRecords(loc[p].vault), loc[p].rname) # 0)
          => /\ pc'[p] \in AddScanLabels \cup {"idle"}
             /\ pc'[p] = "idle" => loc'[p].res = ErrRecordAlreadyExists
             /\ UNCHANGED <<store, sessions, heap, arrays, nonces>>]_vars

C13_Witness ==
    \E p \in Procs :
        /\ Returned(p, "add", ErrRecordAlreadyExists)
        /\ sessions[loc[p].vault] # 0
        /\ Len(SessionRecords(loc[p].vault)) = 2
        /\ Len(nonces[loc[p].vault]) = 3

\* C14: the step of createVault that finds the name in the store returns
\* VaultAlreadyExists and leaves the store, with the salt, nonce and
\* ciphertext of that vault, and the sessions unchanged; no other step of
\* createVault returns VaultAlreadyExists
C14_DuplicateCreateRejected ==
    [][\A p \in Procs :
          /\ (pc[p] = "create_check" /\ Steps(p) /\ Exists(loc[p].vault))
             => /\ pc'[p] = "idle"
                /\ loc'[p].res = ErrVaultAlreadyExists
                /\ UNCHANGED <<store, sessions, heap, arrays, hist>>
          /\ (loc[p].op = "create" /\ Returns(p)
                                   /\ loc'[p].res = ErrVaultAlreadyExists)
             => pc[p] = "create_check" /\ Exists(loc[p].vault)]_vars

\* a second createVault was rejected and the vault still opens under the
\* first passphrase only
C14_Witness ==
    \E p \in Procs :
        /\ Returned(p, "create", ErrVaultAlreadyExists)
        /\ store[loc[p].vault].kind = "meta"
        /\ LET meta == Load(loc[p].vault) IN
           /\ meta.salt = firstSalt[loc[p].vault]
           /\ ~DecryptFails(meta.nonce, meta.encrypted,
                            DeriveKey("pw1", meta.salt))
           /\ DecryptFails(meta.nonce, meta.encrypted,
                           DeriveKey("pw2", meta.salt))

\* C15: no two createVault calls for one name both return success
C15_CreatedOnce ==
    \A p, q \in Procs :
        (p # q /\ Returned(p, "create", OK) /\ Returned(q, "create", OK))
        => loc[p].vault # loc[q].vault

\* the elements a slice header denotes in the backing arrays a
ElemsIn(a, hdr) == [i \in 1..hdr.len |-> a[hdr.arr][i]]

\* C16: what listRecords and getRecord handed to a caller keeps its contents:
\* no step changes the elements of a returned slice or a returned record
C16_NoAliasHandedOut ==
    [][\A p \in Procs :
          (/\ pc[p] = "idle" /\ pc'[p] = "idle"
           /\ loc[p].op \in {"list", "get"} /\ loc[p].res = OK)
          => /\ ElemsIn(arrays', loc[p].hdr) = ElemsIn(arrays, loc[p].hdr)
             /\ loc'[p].view = loc[p].view]_vars

\* the step of a mutation that changes the records of its session
Applies(p, label) == pc[p] = label /\ pc'[p] = "sv_range"

\* the records of the caller's session before and after a step
Before(p) == RecordsIn(heap, arrays, loc[p].sess)
After(p)  == RecordsIn(heap', arrays', loc[p].sess)

\* C17: the step of updateRecord that changes the record replaces the
\* username and the secret that were supplied, keeps an omitted one, and
\* keeps the id, the name and createdAt of the record and every other record;
\* no other step of updateRecord changes a record
C17_UpdateChangesOnlySupplied ==
    [][\A p \in Procs :
          /\ Applies(p, "update_apply")
             => LET i == IndexOf(Before(p), loc[p].rname) IN
                /\ i # 0
                /\ Len(After(p)) = Len(Before(p))
                /\ \A j \in 1..Len(Before(p)) :
                      j # i => After(p)[j] = Before(p)[j]
                /\ After(p)[i].id = Before(p)[i].id
                /\ After(p)[i].name = Before(p)[i].name
                /\ After(p)[i].created = Before(p)[i].created
                /\ After(p)[i].username =
                      IF loc[p].user = "" THEN Before(p)[i].username
                      ELSE loc[p].user
                /\ After(p)[i].password =
                      IF loc[p].secret = "" THEN Before(p)[i].password
                      ELSE loc[p].secret
          /\ (loc[p].op = "update" /\ Steps(p) /\ ~Applies(p, "update_apply"))
             => UNCHANGED <<heap, arrays>>]_vars

\* of two records the first was given a new secret and kept its username
C17_Witness ==
    \E p \in Procs :
        /\ Returned(p, "update", OK)
        /\ sessions[loc[p].vault] # 0
        /\ LET recs == SessionRecords(loc[p].vault) IN
           /\ Len(recs) = 2
           /\ recs[1].username = AddUsername /\ recs[1].password = "s2"
           /\ recs[2].username = AddUsername /\ recs[2].password = AddSecret

\* C18: the step of updateRecord that changes the record sets its updatedAt
\* to a value greater than the one it had, whatever the clock does between
\* the calls as long as it does not go backwards
C18_UpdatedAtAdvances ==
    [][\A p \in Procs :
          Applies(p, "update_apply")
          => LET i == IndexOf(Before(p), loc[p].rname) IN
             After(p)[i].updated > Before(p)[i].updated]_vars

\* C19: the record that addRecord appends has createdAt equal to updatedAt
C19_CreatedEqualsUpdated ==
    [][\A p \in Procs :
          Applies(p, "add_append")
          => After(p)[Len(After(p))].created
                = After(p)[Len(After(p))].updated]_vars

\* a sequence without its i-th element
RemoveAt(seq, i) ==
    [j \in 1..(Len(seq) - 1) |-> IF j < i THEN seq[j] ELSE seq[j + 1]]

\* C20: the step of deleteRecord that changes the records of its session
\* removes one record, the first one of the given name, and leaves the
\* others as they were and in their order; no other step of deleteRecord
\* changes a record
C20_DeleteRemovesExactlyOne ==
    [][\A p \in Procs :
          /\ Applies(p, "delete_apply")
             => LET i == IndexOf(Before(p), loc[p].rname) IN
                /\ i # 0
                /\ Before(p)[i].name = loc[p].rname
                /\ After(p) = RemoveAt(Before(p), i)
          /\ (loc[p].op = "delete" /\ Steps(p) /\ ~Applies(p, "delete_apply"))
             => UNCHANGED <<heap, arrays>>]_vars

\* r1 was deleted from in front of r2, which is what remains, also on disk
C20_Witness ==
    \E p \in Procs :
        /\ Returned(p, "delete", OK)
        /\ sessions[loc[p].vault] # 0
        /\ LET recs == SessionRecords(loc[p].vault) IN
           /\ Len(recs) = 1
           /\ recs[1].name = "r2" /\ recs[1].username = AddUsername
           /\ recs[1].password = AddSecret
           /\ store[loc[p].vault].kind = "meta"
           /\ UnmarshalRecords(Load(loc[p].vault).encrypted.pt) = recs

\* the positions at which an operation finds out whether the name has a session
SessionLabels == LookupLabels \cup {"lock_delete"}

\* C21: the step at which lockVault or a record operation finds no session
\* for its name returns VaultNotFound, whatever the store holds for the name,
\* and changes neither the sessions nor their records nor the store
C21_NoSessionVaultNotFound ==
    [][\A p \in Procs :
          (pc[p] \in SessionLabels /\ Steps(p) /\ sessions[loc[p].vault] = 0)
          => /\ pc'[p] = "idle"
             /\ loc'[p].res = ErrVaultNotFound
             /\ UNCHANGED <<store, sessions, heap, arrays, hist>>]_vars

\* a vault that is on disk and was never unlocked refused a record operation
C21_Witness ==
    \E p \in Procs :
        /\ pc[p] = "idle"
        /\ loc[p].op \in Mutations \cup {"get", "list", "lock"}
        /\ loc[p].res = ErrVaultNotFound
        /\ store[loc[p].vault].kind = "meta"
        /\ sessions[loc[p].vault] = 0
        /\ ~atLock[loc[p].vault].set
        /\ heap = <<>>

\* C22: for one caller on an open vault, getRecord returns the record of the
\* given name, getRecord, updateRecord and deleteRecord return RecordNotFound
\* exactly when the vault holds no record of that name, and a step that
\* returns RecordNotFound changes neither the records nor the store
C22_RecordNotFoundExact ==
    [][\A p \in Procs :
          /\ (pc[p] = "get_scan" /\ Steps(p))
             => LET i == IndexOf(Before(p), loc[p].rname) IN
                IF i = 0
                THEN loc'[p].res = ErrRecordNotFound
                ELSE /\ loc'[p].res = OK
                     /\ loc'[p].view = <<Before(p)[i]>>
                     /\ Before(p)[i].name = loc[p].rname
          /\ (pc[p] \in {"update_apply", "delete_apply"} /\ Steps(p))
             => ((pc'[p] = "idle" /\ loc'[p].res = ErrRecordNotFound)
                   <=> IndexOf(Before(p), loc[p].rname) = 0)
          /\ (Returns(p) /\ loc'[p].res = ErrRecordNotFound)
             => /\ pc[p] \in {"get_scan", "update_apply", "delete_apply"}
                /\ UNCHANGED <<store, sessions, heap, arrays, nonces>>]_vars

\* the second of two records was fetched by its name
C22_Witness ==
    \E p \in Procs :
        /\ Returned(p, "get", OK)
        /\ sessions[loc[p].vault] # 0
        /\ Len(SessionRecords(loc[p].vault)) = 2
        /\ loc[p].view = <<SessionRecords(loc[p].vault)[2]>>
        /\ loc[p].view[1].name = "r2"

\* C23: no step of createVault changes the sessions; an unlockVault that
\* reads a vault file written once, by its creation, and has the passphrase
\* of the creation decodes an empty record list, and the session it installs
\* has no records
C23_CreateDoesNotUnlock ==
    [][\A p \in Procs :
          /\ (loc[p].op = "create" /\ Steps(p))
             => UNCHANGED <<sessions, heap, arrays>>
          /\ (/\ pc[p] = "unlock_load" /\ Steps(p)
              /\ store[loc[p].vault].kind = "meta"
              /\ Len(nonces[loc[p].vault]) = 1
              /\ loc[p].pw = Load(loc[p].vault).encrypted.key.pw)
             => pc'[p] = "unlock_lock" /\ loc'[p].view = <<>>
          /\ (pc[p] = "unlock_store" /\ Steps(p) /\ loc[p].view = <<>>)
             => /\ loc'[p].res = OK
                /\ sessions'[loc[p].vault] # 0
                /\ RecordsIn(heap', arrays', sessions'[loc[p].vault]) = <<>>]_vars

\* a created vault was reported locked and then opened empty by its first
\* unlock
C23_Witness ==
    \E p, q \in Procs :
        /\ Returned(p, "unlock", OK)
        /\ Returned(q, "isUnlocked", "false")
        /\ loc[q].vault = loc[p].vault
        /\ Len(nonces[loc[p].vault]) = 1
        /\ Len(heap) = 1
        /\ sessions[loc[p].vault] = 1
        /\ SessionRecords(loc[p].vault) = <<>>

\* the vaults a createVault has written, and those one is writing
Created == {n \in Vaults : firstSalt[n] # 0}

Creating ==
    {loc[q].vault : q \in {r \in Procs : /\ loc[r].op = "create"
                                         /\ pc[r] = "save_write"}}

C25_NoPartialEntry ==
    \A p \in Procs :
        pc[p] \in {"unlock_load", "sv_load"}
        => LoadError(loc[p].vault) # ErrUnmarshalMetadata

\* C26: the Load of unlockVault returns VaultNotFound exactly when nothing is
\* at the path of the vault; a file that does not parse and a path that cannot
\* be read give errors of their own, which unlockVault returns as they are
C26_MissingVersusDamaged ==
    [][\A p \in Procs :
          (pc[p] = "unlock_load" /\ Steps(p))
          => LET v == loc[p].vault IN
             /\ loc'[p].res = ErrVaultNotFound
                   <=> (store[v] = NoFile /\ ~Occupied(v))
             /\ store[v] = EmptyFile
                   => (pc'[p] = "idle" /\ loc'[p].res = ErrUnmarshalMetadata)
             /\ Occupied(v)
                   => (pc'[p] = "idle" /\ loc'[p].res = ErrReadVaultFile)
             /\ UNCHANGED <<store, dir>>]_vars

\* unlockVault of a damaged vault file returned the parse error
C26_Witness ==
    \E p \in Procs :
        /\ Returned(p, "unlock", ErrUnmarshalMetadata)
        /\ store[loc[p].vault] = EmptyFile

C28_ListFiltersEntries ==
    [][\A p \in Procs :
          (pc[p] = "listvaults" /\ Steps(p))
          => /\ \A x \in loc'[p].names :
                   \E e \in ReadDir : ~e.isDir /\ e.name = x \o <<".vault">>
             /\ \A e \in ReadDir :
                   (~e.isDir /\ Len(e.name) >= 1
                       /\ e.name[Len(e.name)] = ".vault")
                   => SubSeq(e.name, 1, Len(e.name) - 1) \in loc'[p].names]_vars

\* listVaults returned the one vault the engine created from a directory that
\* also holds a directory named like a vault file and a file of another
\* extension
C28_Witness ==
    \E p \in Procs :
        /\ Returned(p, "listVaults", OK)
        /\ loc[p].names = {<<"a">>}
        /\ store["a"].kind = "meta"
        /\ [name |-> <<"c", ".vault">>, isDir |-> TRUE] \in dir
        /\ [name |-> <<"c", ".txt">>, isDir |-> FALSE] \in dir

C30_DecryptFailsClosed ==
    (/\ probe.stage = "opened"
     /\ \/ probe.with.key # probe.key
        \/ probe.with.ct # probe.ct
        \/ NonceLen(probe.with.nonce) # NonceSize
        \/ KeyLen(probe.with.key) # Argon2KeyLen)
    => /\ probe.out.err # OK
       /\ probe.out.pt = <<>>

\* Decrypt of a ciphertext whose body was modified, under the right key and
\* nonce, failed in gcm.Open
C30_Witness ==
    /\ probe.stage = "opened"
    /\ probe.with.key = probe.key
    /\ probe.with.nonce = probe.nonce
    /\ probe.with.ct.pt # probe.ct.pt
    /\ probe.out = [err |-> ErrDecryptionFailed, pt |-> <<>>]

C33_NoWriteAfterLock ==
    [][\A p \in Procs :
          (/\ pc[p] \in {"add_append", "save_open", "save_write"}
           /\ loc[p].op \in Mutations
           /\ Steps(p))
          => sessions[loc[p].vault] # 0]_vars

\* the positions of saveVault and Save: a mutation gets there after it has
\* changed the records of the session
SaveLabels == {"sv_range", "sv_marshal", "sv_load", "save_open", "save_write"}

\* C34: a mutation that has changed the records of the session does not
\* return an error: it returns an error only from a position before its
\* change
C34_FailedMutationChangesNothing ==
    [][\A p \in Procs :
          (/\ Returns(p)
           /\ loc[p].op \in Mutations
           /\ loc'[p].res # OK)
          => pc[p] \notin SaveLabels]_vars

\* C35: a vault file that holds metadata opens under the key derived from
\* some passphrase and the salt stored in it
C35_PersistedVaultUnlockable ==
    \A n \in Vaults :
        store[n].kind = "meta"
        => \E pw \in Passphrases :
              /\ ~DeriveKeyFails(pw, Load(n).salt)
              /\ ~DecryptFails(Load(n).nonce, Load(n).encrypted,
                               DeriveKey(pw, Load(n).salt))

\* the times in a window of length RateWindow that ends at t
GrantsIn(u, t) ==
    {i \in DOMAIN allowed[u] :
        allowed[u][i] > t - RateWindow /\ allowed[u][i] <= t}

\* would Allow let the user through now
WouldAllow(u) ==
    Len(ValidRequests(requests[u], clock - RateWindow)) < RateLimit

C37_ExpiredNotAuthenticated ==
    \A u \in Users :
        IsAuthenticated(u) => clock - userSessions[u].last <= SessionTTL

\* C38: a vault is unlocked in the engine only while some bot user has an
\* active session on it or is being logged into it
C38_UnlockedOnlyWithSession ==
    \A v \in Vaults :
        sessions[v] # 0
        => \E u \in Users :
              \/ IsAuthenticated(u) /\ userSessions[u].vault = v
              \/ handler[u] = "login" /\ loc[u].vault = v

\* C39: a message passed to ScheduleDelete for which no deletion request has
\* been issued yet is still pending, in the map or in the list of a running
\* round of deletions: no later ScheduleDelete has removed or replaced it
C39_ScheduledStaysPending ==
    \A m \in scheduled \ deleted :
        \/ m \in toDelete
        \/ \E k \in DOMAIN messages : <<messages[k].chat, messages[k].msg>> = m

====
